---- MODULE Spec2Model ----
(***************************************************************************)
(* A model of PyTorchShim (thinc/shims/pytorch.py): the adapter that owns  *)
(* one PyTorch model, drives it through predict / begin_update / backprop, *)
(* lazily builds a torch optimizer in finish_update, keeps running         *)
(* averages of the parameters inside the generic optimizer, substitutes    *)
(* parameters for the length of a use_params scope and (de)serialises the  *)
(* weights.                                                                *)
(*                                                                         *)
(* Tensors are abstracted to small integers, a state_dict to a function    *)
(* from parameter names to such integers.  Strings that the code formats   *)
(* and parses (the keys "pytorch_<id>_<name>") are sequences of tokens.    *)
(***************************************************************************)
EXTENDS Integers, Sequences, FiniteSets, TLC

(***************************************************************************)
(* Bounds of the model.                                                    *)
(***************************************************************************)
MaxVal == 1          \* parameter values are 0..MaxVal
MaxGrad == 1         \* a gradient contribution is 0..MaxGrad
MaxFinish == 2       \* finish_update is called at most this many times

Vals == 0..MaxVal
Modulus == MaxVal + 1
GradVals == 0..MaxGrad

(***************************************************************************)
(* Strings as token sequences.                                             *)
(***************************************************************************)
StartsWith(k, prefix) ==
    /\ Len(k) >= Len(prefix)
    /\ SubSeq(k, 1, Len(prefix)) = prefix

\* str.replace(old, ""): drop every non-overlapping occurrence of old, scanning
\* from the left.
RECURSIVE Replace(_, _)
Replace(k, old) ==
    IF k = <<>> THEN <<>>
    ELSE IF old /= <<>> /\ StartsWith(k, old)
         THEN Replace(SubSeq(k, Len(old) + 1, Len(k)), old)
         ELSE <<Head(k)>> \o Replace(Tail(k), old)

\* A mapping key that is not a string (no startswith attribute).
NonStrKey == <<"<not-a-str>">>
HasStartswith(k) == k /= NonStrKey

\* The identity of the modelled shim, and of another shim that shares the
\* optimizer's registry.
SelfId == "1"
OtherId == "2"

\* f"pytorch_{self.id}_"
key_prefix(id) == <<"pytorch", "_", id, "_">>
\* f"pytorch_{self.id}_{name}"
Key(id, name) == key_prefix(id) \o name

\* The named tensors of the foreign model, in state_dict() order.
StateDictOrder == << <<"w">>, <<"b">> >>
Names == {StateDictOrder[i] : i \in 1..Len(StateDictOrder)}

OwnKeys == {Key(SelfId, n) : n \in Names}
OtherKey == Key(OtherId, <<"w">>)
RegistryKeys == OwnKeys \cup {OtherKey}

(***************************************************************************)
(* Python dicts are functions; d.update(e) and friends.                    *)
(***************************************************************************)
EmptyDict == [k \in {} |-> 0]
DictUpdate(d, e) ==
    [k \in DOMAIN d \cup DOMAIN e |-> IF k \in DOMAIN e THEN e[k] ELSE d[k]]
DictSet(d, k, v) == DictUpdate(d, k :> v)

(***************************************************************************)
(* The foreign framework (torch), as far as the shim uses it.              *)
(***************************************************************************)
\* Module.load_state_dict(sd) with the default strict=True: every tensor
\* named in sd is copied in place; then missing or unexpected names raise.
LoadStateDict(live, sd) ==
    [ params |-> [n \in Names |-> IF n \in DOMAIN sd THEN sd[n] ELSE live[n]],
      raised |-> IF DOMAIN sd = Names THEN "none" ELSE "RuntimeError" ]

RECURSIVE SumOver(_, _)
SumOver(f, S) ==
    IF S = {} THEN 0
    ELSE LET x == CHOOSE y \in S : TRUE IN f[x] + SumOver(f, S \ {x})

\* torch.nn.utils.clip_grad_norm_(parameters, max_norm): gradients whose
\* total norm exceeds max_norm are scaled by max_norm / total, in place.
ClipGradNorm(g, max_norm) ==
    LET total == SumOver(g, Names)
    IN  IF total > max_norm
        THEN [n \in Names |-> (g[n] * max_norm) \div total]
        ELSE g

\* Optimizer.step(): each parameter moves by its gradient, scaled by the
\* learning rate of its hyperparameter group.
OptimStep(p, g, group) == [n \in Names |-> (p[n] + group["lr"] * g[n]) % Modulus]

\* Optimizer.zero_grad()
ZeroGrad == [n \in Names |-> 0]

(***************************************************************************)
(* The generic optimizer handed to finish_update.                          *)
(***************************************************************************)
\* Its fields range over two values each; 9 stands for 0.9, 999 for 0.999, 8
\* for 1e-8.
LearnRates == {1, 2}
L2s == {0, 1}
B1s == {0, 9}
B2s == {0, 999}
Epsilons == {8}
GradClips == {0, 1}       \* 0: no gradient clipping

Optimizers ==
    [ learn_rate : LearnRates, L2 : L2s, b1 : B1s, b2 : B2s, eps : Epsilons,
      L2_is_weight_decay : BOOLEAN, grad_clip : GradClips ]

\* The names bound in the module's namespace by its imports and its class.
ModuleGlobals ==
    { "Any", "contextlib", "BytesIO", "srsly", "torch", "torch2xp", "xp2torch",
      "convert_recursive", "get_current_ops", "get_array_ops", "ArgsKwargs",
      "Shim", "PyTorchShim" }

\* Evaluating a dotted name raises NameError unless its first component is
\* bound.
NameResolves(path) == Head(path) \in ModuleGlobals

\* A class selection that ignores L2_is_weight_decay.
OptimizerClsNoDecay(sgd) ==
    IF sgd.b1 /= 0 /\ sgd.b2 /= 0
    THEN <<"torch", "optim", "Adam">>
    ELSE <<"thinc", "optim", "SGD">>

\* The optimizer class the code names for sgd.
OptimizerCls(sgd) ==
    IF sgd.b1 /= 0 /\ sgd.b2 /= 0
    THEN IF sgd.L2_is_weight_decay
         THEN <<"torch", "optim", "AdamW">>
         ELSE <<"torch", "optim", "Adam">>
    ELSE <<"thinc", "optim", "SGD">>

\* The keyword arguments derived from sgd.
OptimizerArgs(sgd) ==
    LET args == ("lr" :> sgd.learn_rate) @@ ("weight_decay" :> sgd.L2)
    IN  IF sgd.b1 /= 0 /\ sgd.b2 /= 0
        THEN DictUpdate(args, ("betas" :> <<sgd.b1, sgd.b2>>) @@ ("eps" :> sgd.eps))
        ELSE IF sgd.b2 = 0
             THEN DictSet(args, "momentum", sgd.b1)
             ELSE args

NoOptimizer == [cls |-> <<"None">>, handle |-> 0, param_groups |-> <<>>]

\* cls(self._model.parameters(), **args): one hyperparameter group.
Construct(cls, args, handle) ==
    [cls |-> cls, handle |-> handle, param_groups |-> <<args>>]

\* for param_group in self._optimizer.param_groups: param_group.update(args)
UpdateGroups(opt, args) ==
    [opt EXCEPT !.param_groups =
        [i \in DOMAIN opt.param_groups |-> DictUpdate(opt.param_groups[i], args)]]

\* _get_pytorch_optimizer(sgd), applied to the shim's current optimizer; handle
\* is the identity a newly constructed object would get.
GetPytorchOptimizer(cur, sgd, handle) ==
    IF ~NameResolves(OptimizerCls(sgd))
    THEN [raised |-> "NameError", optimizer |-> cur, constructed |-> FALSE]
    ELSE IF cur = NoOptimizer
         THEN [raised |-> "none", constructed |-> TRUE,
               optimizer |-> Construct(OptimizerCls(sgd), OptimizerArgs(sgd), handle)]
         ELSE [raised |-> "none", constructed |-> FALSE,
               optimizer |-> UpdateGroups(cur, OptimizerArgs(sgd))]

(***************************************************************************)
(* The registry of the generic optimizer: averages and nr_update.          *)
(***************************************************************************)
\* nr_update is a defaultdict(int): a missing key reads as 0.
NrGet(nr, key) == IF key \in DOMAIN nr THEN nr[key] ELSE 0

\* ops.update_averages(ema, weights, t): the running average moves towards the
\* weights by a share that shrinks with the update count t.
update_averages(ema, weights, t) == ema + ((weights - ema) \div t)

init_steps == 1

\* An averaging loop that starts a new average at zero instead of at a copy of
\* the parameter.
RECURSIVE AveragesLoopFromZero(_, _, _, _)
AveragesLoopFromZero(reg, id, sd, names) ==
    IF names = <<>> THEN reg
    ELSE LET name == Head(names)
             key == Key(id, name)
             nr == DictSet(reg.nr_update, key, NrGet(reg.nr_update, key) + 1)
             xp_param == sd[name]
             next ==
                 IF key \in DOMAIN reg.averages
                 THEN [ averages |-> DictSet(reg.averages, key,
                                       update_averages(reg.averages[key], xp_param, nr[key])),
                        nr_update |-> nr ]
                 ELSE [ averages |-> DictSet(reg.averages, key, 0),
                        nr_update |-> DictSet(nr, key, init_steps) ]
         IN  AveragesLoopFromZero(next, id, sd, Tail(names))

\* An averaging loop that leaves nr_update[key] where it is.
RECURSIVE AveragesLoopNoIncrement(_, _, _, _)
AveragesLoopNoIncrement(reg, id, sd, names) ==
    IF names = <<>> THEN reg
    ELSE LET name == Head(names)
             key == Key(id, name)
             nr == DictSet(reg.nr_update, key, NrGet(reg.nr_update, key))
             xp_param == sd[name]
             next ==
                 IF key \in DOMAIN reg.averages
                 THEN [ averages |-> DictSet(reg.averages, key,
                                       update_averages(reg.averages[key], xp_param, nr[key])),
                        nr_update |-> nr ]
                 ELSE [ averages |-> DictSet(reg.averages, key, xp_param),
                        nr_update |-> DictSet(nr, key, init_steps) ]
         IN  AveragesLoopNoIncrement(next, id, sd, Tail(names))

\* The loop of _update_pytorch_averages over the names of state_dict(), reg
\* being the registry [averages, nr_update] it writes into.
RECURSIVE AveragesLoop(_, _, _, _)
AveragesLoop(reg, id, sd, names) ==
    IF names = <<>> THEN reg
    ELSE LET name == Head(names)
             key == Key(id, name)
             nr == DictSet(reg.nr_update, key, NrGet(reg.nr_update, key) + 1)
             xp_param == sd[name]
             next ==
                 IF key \in DOMAIN reg.averages
                 THEN [ averages |-> DictSet(reg.averages, key,
                                       update_averages(reg.averages[key], xp_param, nr[key])),
                        nr_update |-> nr ]
                 ELSE [ averages |-> DictSet(reg.averages, key, xp_param),
                        nr_update |-> DictSet(nr, key, init_steps) ]
         IN  AveragesLoop(next, id, sd, Tail(names))

\* An averaging update that does not test whether averaging is on.
UpdatePytorchAveragesAlways(avgs, nr, id, sd) ==
    LET r == AveragesLoop([averages |-> avgs.dict, nr_update |-> nr],
                          id, sd, StateDictOrder)
    IN  [ averages |-> [none |-> avgs.none, dict |-> r.averages],
          nr_update |-> r.nr_update ]

\* _update_pytorch_averages(sgd): avgs is [none, dict], the averages attribute.
UpdatePytorchAverages(avgs, nr, id, sd) ==
    IF avgs.none
    THEN [averages |-> avgs, nr_update |-> nr]
    ELSE LET r == AveragesLoop([averages |-> avgs.dict, nr_update |-> nr],
                               id, sd, StateDictOrder)
         IN  [ averages |-> [none |-> FALSE, dict |-> r.averages],
               nr_update |-> r.nr_update ]

(***************************************************************************)
(* use_params: the state_dict collected from the mapping.                  *)
(***************************************************************************)
\* A collection that takes the entries of any shim, another shim's first.
BuildStateDictAnyShim(P, id) ==
    LET any_prefix == <<"pytorch", "_">>
        matching == {k \in DOMAIN P : HasStartswith(k) /\ StartsWith(k, any_prefix)}
        names == {SubSeq(k, Len(key_prefix(id)) + 1, Len(k)) : k \in matching}
    IN  [n \in names |->
            IF Key(OtherId, n) \in matching THEN P[Key(OtherId, n)] ELSE P[Key(id, n)]]

\* The loop over params.items(): keys with the shim's prefix, prefix removed.
BuildStateDict(P, id) ==
    LET matching == {k \in DOMAIN P : HasStartswith(k) /\ StartsWith(k, key_prefix(id))}
        names == {Replace(k, key_prefix(id)) : k \in matching}
    IN  [n \in names |->
            P[CHOOSE k \in matching : Replace(k, key_prefix(id)) = n]]

\* The mappings handed to use_params: any choice of entries for the shim's own
\* keys, alone or beside an entry of another shim and an entry under a key that
\* is no string.
ParamMaps ==
    { DictUpdate(own, other) :
        own \in UNION { [D -> Vals] : D \in SUBSET OwnKeys },
        other \in {EmptyDict, (OtherKey :> 0) @@ (NonStrKey :> 0)} }

(***************************************************************************)
(* Serialisation.                                                          *)
(***************************************************************************)
Configs == {"cfg_a", "cfg_b"}

\* torch.save(state_dict, f): the named tensors, in order.
TorchSave(sd) ==
    [i \in 1..Len(StateDictOrder) |-> <<StateDictOrder[i], sd[StateDictOrder[i]]>>]
\* torch.load(f)
TorchLoad(bytes) ==
    [n \in {bytes[i][1] : i \in DOMAIN bytes} |->
        (bytes[CHOOSE i \in DOMAIN bytes : bytes[i][1] = n])[2]]

\* srsly.msgpack_dumps(msg): the fields of the map, in insertion order.
FieldOrder == <<"config", "state">>
MsgpackDumps(msg) ==
    [i \in 1..Len(FieldOrder) |-> <<FieldOrder[i], msg[FieldOrder[i]]>>]
\* srsly.msgpack_loads(bytes): the map again.
MsgpackLoads(bytes) ==
    [f \in {bytes[i][1] : i \in DOMAIN bytes} |->
        (bytes[CHOOSE i \in DOMAIN bytes : bytes[i][1] = f])[2]]

\* to_bytes()
ToBytesOf(config, sd) ==
    MsgpackDumps(("config" :> config) @@ ("state" :> TorchSave(sd)))

NoBytes == <<>>
\* What a caller may hand to from_bytes: the envelope of any shim, or one that
\* lacks a field.
Envelopes ==
    LET good == {ToBytesOf(c, sd) : c \in Configs, sd \in [Names -> Vals]}
    IN  good \cup {<<b[1]>> : b \in good} \cup {<<b[2]>> : b \in good}

(***************************************************************************)
(* The state.                                                              *)
(***************************************************************************)
VARIABLES
    params,         \* self._model.state_dict(): name -> value
    grads,          \* the accumulated gradient of each named parameter
    training,       \* the mode flag of self._model (FALSE: evaluation mode)
    grad_enabled,   \* torch's gradient tracking (FALSE inside torch.no_grad())
    cfg,            \* self.cfg
    _optimizer,     \* self._optimizer
    averages,       \* sgd.averages: [none, dict]
    nr_update,      \* sgd.nr_update
    pc,             \* where the shim is inside predict or finish_update
    fu_clip,        \* optimizer.grad_clip of the finish_update in progress
    fu_trace,       \* the stages the latest finish_update went through
    scope,          \* the use_params generator: "none", "substituted", "direct"
    backup,         \* its local backup
    before,         \* the parameters when the scope was entered
    use_params_keys, \* the keys of the mapping the scope was entered with
    pending,        \* the backprop callback the caller holds
    output,         \* what the latest predict or begin_update returned
    forward_returns, \* what the foreign model returns: "tensor" or "tuple"
    blob,           \* the bytes the latest to_bytes returned
    saved_state,    \* cfg and parameters when the latest to_bytes ran
    from_bytes_arg, \* the argument of the latest from_bytes, summarised
    last,           \* the latest operation and how it ended
    nr_constructed, \* how many torch optimizers were constructed
    nr_finish,      \* how many times finish_update was called
    nr_returned,    \* how many times finish_update returned
    last_sgd        \* the argument of the latest finish_update

model_vars == <<params, grads, training, grad_enabled>>
shim_vars == <<cfg, _optimizer>>
sgd_vars == <<averages, nr_update>>
fu_vars == <<fu_clip, fu_trace, nr_constructed, nr_finish, nr_returned, last_sgd>>
scope_vars == <<scope, backup, before, use_params_keys>>
bytes_vars == <<blob, saved_state, from_bytes_arg>>
returned_vars == <<output, forward_returns>>
vars ==
    <<model_vars, shim_vars, sgd_vars, pc, fu_vars, scope_vars, pending, returned_vars,
      bytes_vars, last>>

NoSgd ==
    [ learn_rate |-> 0, L2 |-> 0, b1 |-> 0, b2 |-> 0, eps |-> 0,
      L2_is_weight_decay |-> FALSE, grad_clip |-> 0 ]

NoSaved == [cfg |-> "none", params |-> EmptyDict]
NoFromBytesArg == [of_to_bytes |-> FALSE, fields |-> {}]

\* The registry a fresh shim may meet: averaging off, on and empty, or on and
\* already holding an entry of another shim.
InitRegistries ==
    { [averages |-> [none |-> TRUE, dict |-> EmptyDict], nr_update |-> EmptyDict],
      [averages |-> [none |-> FALSE, dict |-> EmptyDict], nr_update |-> EmptyDict] }
    \cup { [averages |-> [none |-> FALSE, dict |-> (OtherKey :> v)],
            nr_update |-> (OtherKey :> 1)] : v \in Vals }

\* A newly built shim around a model with any weights, in either mode.
Init ==
    /\ params \in [Names -> Vals]
    /\ grads = ZeroGrad
    /\ training \in BOOLEAN
    /\ grad_enabled = TRUE
    /\ cfg = "cfg_a"
    /\ _optimizer = NoOptimizer
    /\ \E reg \in InitRegistries :
          /\ averages = reg.averages
          /\ nr_update = reg.nr_update
    /\ pc = "idle"
    /\ fu_clip = 0
    /\ fu_trace = <<>>
    /\ scope = "none"
    /\ backup = EmptyDict
    /\ before = EmptyDict
    /\ use_params_keys = {}
    /\ pending = "none"
    /\ output = "none"
    /\ forward_returns \in {"tensor", "tuple"}
    /\ blob = NoBytes
    /\ saved_state = NoSaved
    /\ from_bytes_arg = NoFromBytesArg
    /\ last = <<"init", "ok">>
    /\ nr_constructed = 0
    /\ nr_finish = 0
    /\ nr_returned = 0
    /\ last_sgd = NoSgd

(***************************************************************************)
(* predict, begin_update, __call__ and the callbacks they return.          *)
(***************************************************************************)
\* predict up to the forward call: eval(), then torch.no_grad() is entered.
\* via_call: the call came through __call__(inputs, is_train=False).
PredictEnter(via_call) ==
    /\ pc = "idle"
    /\ training' = FALSE
    /\ grad_enabled' = FALSE
    /\ pc' = IF via_call THEN "call_predict" ELSE "predict"
    /\ last' = <<pc', "running">>
    /\ UNCHANGED <<params, grads, shim_vars, sgd_vars, fu_vars, scope_vars, pending,
                   returned_vars, bytes_vars>>

\* A predict that does not call train() after the forward call.
PredictForwardNoTrain(ok) ==
    /\ pc \in {"predict", "call_predict"}
    /\ grad_enabled' = TRUE
    /\ pending' = IF ok /\ pc = "call_predict" THEN "noop" ELSE pending
    /\ last' = <<pc, IF ok THEN "ok" ELSE "ForwardError">>
    /\ output' = IF ok THEN forward_returns ELSE output
    /\ pc' = "idle"
    /\ UNCHANGED <<params, grads, training, shim_vars, sgd_vars, fu_vars, scope_vars,
                   forward_returns, bytes_vars>>

\* A predict that calls train() whether or not the forward call returned.
PredictForwardAlwaysTrain(ok) ==
    /\ pc \in {"predict", "call_predict"}
    /\ grad_enabled' = TRUE
    /\ training' = TRUE
    /\ pending' = IF ok /\ pc = "call_predict" THEN "noop" ELSE pending
    /\ last' = <<pc, IF ok THEN "ok" ELSE "ForwardError">>
    /\ output' = IF ok THEN forward_returns ELSE output
    /\ pc' = "idle"
    /\ UNCHANGED <<params, grads, shim_vars, sgd_vars, fu_vars, scope_vars,
                   forward_returns, bytes_vars>>

\* The forward call inside predict and what follows it.  ok: the foreign
\* model returned; otherwise it raised, which leaves no_grad and predict.
PredictForward(ok) ==
    /\ pc \in {"predict", "call_predict"}
    /\ grad_enabled' = TRUE
    /\ training' = IF ok THEN TRUE ELSE training
    /\ pending' = IF ok /\ pc = "call_predict" THEN "noop" ELSE pending
    /\ last' = <<pc, IF ok THEN "ok" ELSE "ForwardError">>
    /\ output' = IF ok THEN forward_returns ELSE output
    /\ pc' = "idle"
    /\ UNCHANGED <<params, grads, shim_vars, sgd_vars, fu_vars, scope_vars,
                   forward_returns, bytes_vars>>

\* begin_update: train(), the forward call, the backprop closure.
BeginUpdate(via_call, ok) ==
    /\ pc = "idle"
    /\ training' = TRUE
    /\ pending' = IF ok THEN "backward" ELSE pending
    /\ last' = <<IF via_call THEN "call_begin_update" ELSE "begin_update",
                 IF ok THEN "ok" ELSE "ForwardError">>
    /\ output' = IF ok THEN forward_returns ELSE output
    /\ UNCHANGED <<params, grads, grad_enabled, shim_vars, sgd_vars, pc, fu_vars,
                   scope_vars, forward_returns, bytes_vars>>

\* __call__(inputs, is_train)
Call(is_train, ok) ==
    IF is_train THEN BeginUpdate(TRUE, ok) ELSE PredictEnter(TRUE)

\* The closure backprop(grads) of begin_update: torch.autograd.backward adds
\* g to the accumulated gradients.
Backprop(g) ==
    /\ pc = "idle"
    /\ pending = "backward"
    /\ \A n \in Names : grads[n] + g[n] <= MaxGrad
    /\ grads' = [n \in Names |-> grads[n] + g[n]]
    /\ pending' = "none"
    /\ last' = <<"backprop", "ok">>
    /\ UNCHANGED <<params, training, grad_enabled, shim_vars, sgd_vars, pc, fu_vars,
                   scope_vars, returned_vars, bytes_vars>>

\* A callback of predict that runs the backward pass all the same.
NoopBackpropBackward(g) ==
    /\ pc = "idle"
    /\ pending = "noop"
    /\ \A n \in Names : grads[n] + g[n] <= MaxGrad
    /\ grads' = [n \in Names |-> grads[n] + g[n]]
    /\ last' = <<"noop_backprop", "ok">>
    /\ UNCHANGED <<params, training, grad_enabled, shim_vars, sgd_vars, pc, fu_vars,
                   scope_vars, pending, returned_vars, bytes_vars>>

\* The callback of __call__(inputs, False): lambda a: ...
NoopBackprop(g) ==
    /\ pc = "idle"
    /\ pending = "noop"
    /\ last' = <<"noop_backprop", "ok">>
    /\ UNCHANGED <<model_vars, shim_vars, sgd_vars, pc, fu_vars, scope_vars, pending,
                   returned_vars, bytes_vars>>

(***************************************************************************)
(* finish_update, statement by statement.                                  *)
(***************************************************************************)
\* A finish_update that clears the gradients before the step.
FinishUpdateNextZeroFirst(stage, clip) ==
    CASE stage = "get_optimizer" -> IF clip /= 0 THEN "clip" ELSE "zero_grad"
      [] stage = "clip" -> "zero_grad"
      [] stage = "zero_grad" -> "step"
      [] stage = "step" -> "update_averages"
      [] stage = "update_averages" -> "idle"

\* The statement finish_update runs after the given one; clip is
\* optimizer.grad_clip, tested for truth.
FinishUpdateNext(stage, clip) ==
    CASE stage = "get_optimizer" -> IF clip /= 0 THEN "clip" ELSE "step"
      [] stage = "clip" -> "step"
      [] stage = "step" -> "zero_grad"
      [] stage = "zero_grad" -> "update_averages"
      [] stage = "update_averages" -> "idle"

\* finish_update(sgd) up to and including _get_pytorch_optimizer(sgd).
FinishUpdate(sgd) ==
    /\ pc = "idle"
    /\ nr_finish < MaxFinish
    /\ nr_finish' = nr_finish + 1
    /\ last_sgd' = sgd
    /\ LET r == GetPytorchOptimizer(_optimizer, sgd, nr_constructed + 1)
       IN  /\ _optimizer' = r.optimizer
           /\ nr_constructed' = nr_constructed + (IF r.constructed THEN 1 ELSE 0)
           /\ IF r.raised /= "none"
              THEN /\ pc' = "idle"
                   /\ fu_trace' = <<>>
                   /\ fu_clip' = 0
                   /\ last' = <<"finish_update", r.raised>>
              ELSE /\ pc' = FinishUpdateNext("get_optimizer", sgd.grad_clip)
                   /\ fu_trace' = <<"get_optimizer">>
                   /\ fu_clip' = sgd.grad_clip
                   /\ last' = <<"finish_update", "running">>
    /\ UNCHANGED <<model_vars, cfg, sgd_vars, nr_returned, scope_vars, pending,
                   returned_vars, bytes_vars>>

\* A finish_update that goes on to its next statement after one raised.
FinishUpdateRaiseSuppressed(stage) ==
    /\ pc' = FinishUpdateNext(stage, fu_clip)
    /\ fu_clip' = fu_clip
    /\ last' = <<"finish_update", "ForeignError">>
    /\ UNCHANGED <<model_vars, shim_vars, sgd_vars, fu_trace, nr_constructed, nr_finish,
                   nr_returned, last_sgd, scope_vars, pending, returned_vars, bytes_vars>>

\* A statement of finish_update raised: the call is left there.
FinishUpdateRaise(stage) ==
    /\ pc' = "idle"
    /\ fu_clip' = 0
    /\ last' = <<"finish_update", "ForeignError">>
    /\ UNCHANGED <<model_vars, shim_vars, sgd_vars, fu_trace, nr_constructed, nr_finish,
                   nr_returned, last_sgd, scope_vars, pending, returned_vars, bytes_vars>>

\* torch.nn.utils.clip_grad_norm_(self._model.parameters(), optimizer.grad_clip)
FuClip(ok) ==
    /\ pc = "clip"
    /\ IF ok
       THEN /\ grads' = ClipGradNorm(grads, fu_clip)
            /\ fu_trace' = Append(fu_trace, "clip")
            /\ pc' = FinishUpdateNext("clip", fu_clip)
            /\ UNCHANGED <<params, training, grad_enabled, shim_vars, sgd_vars, fu_clip,
                           nr_constructed, nr_finish, nr_returned, last_sgd, scope_vars, pending,
                           returned_vars, bytes_vars, last>>
       ELSE FinishUpdateRaise("clip")

\* pytorch_opt.step()
FuStep(ok) ==
    /\ pc = "step"
    /\ IF ok
       THEN /\ params' = OptimStep(params, grads, _optimizer.param_groups[1])
            /\ fu_trace' = Append(fu_trace, "step")
            /\ pc' = FinishUpdateNext("step", fu_clip)
            /\ UNCHANGED <<grads, training, grad_enabled, shim_vars, sgd_vars, fu_clip,
                           nr_constructed, nr_finish, nr_returned, last_sgd, scope_vars, pending,
                           returned_vars, bytes_vars, last>>
       ELSE FinishUpdateRaise("step")

\* pytorch_opt.zero_grad()
FuZeroGrad ==
    /\ pc = "zero_grad"
    /\ grads' = ZeroGrad
    /\ fu_trace' = Append(fu_trace, "zero_grad")
    /\ pc' = FinishUpdateNext("zero_grad", fu_clip)
    /\ UNCHANGED <<params, training, grad_enabled, shim_vars, sgd_vars, fu_clip,
                   nr_constructed, nr_finish, nr_returned, last_sgd, scope_vars, pending,
                   returned_vars, bytes_vars, last>>

\* self._update_pytorch_averages(optimizer), and the return.
FuUpdateAverages ==
    /\ pc = "update_averages"
    /\ LET r == UpdatePytorchAverages(averages, nr_update, SelfId, params)
       IN  /\ averages' = r.averages
           /\ nr_update' = r.nr_update
    /\ fu_trace' = Append(fu_trace, "update_averages")
    /\ pc' = FinishUpdateNext("update_averages", fu_clip)
    /\ fu_clip' = 0
    /\ nr_returned' = nr_returned + 1
    /\ last' = <<"finish_update", "ok">>
    /\ UNCHANGED <<model_vars, shim_vars, nr_constructed, nr_finish, last_sgd,
                   scope_vars, pending, returned_vars, bytes_vars>>

(***************************************************************************)
(* use_params: a generator run by contextlib.contextmanager.               *)
(***************************************************************************)
\* A use_params that takes its snapshot whether or not a key matched.
UseParamsEnterSnapshotAlways(P) ==
    /\ pc = "idle"
    /\ scope = "none"
    /\ LET state_dict == BuildStateDict(P, SelfId)
           r == IF DOMAIN state_dict /= {}
                THEN LoadStateDict(params, state_dict)
                ELSE [params |-> params, raised |-> "none"]
       IN  /\ params' = r.params
           /\ IF r.raised = "none"
              THEN /\ scope' = "substituted"
                   /\ backup' = params
                   /\ before' = params
                   /\ use_params_keys' = DOMAIN P
                   /\ last' = <<"use_params", "entered">>
              ELSE /\ last' = <<"use_params", r.raised>>
                   /\ UNCHANGED scope_vars
    /\ UNCHANGED <<grads, training, grad_enabled, shim_vars, sgd_vars, pc, fu_vars,
                   pending, returned_vars, bytes_vars>>

\* with shim.use_params(P): the generator runs up to its yield.
UseParamsEnter(P) ==
    /\ pc = "idle"
    /\ scope = "none"
    /\ LET state_dict == BuildStateDict(P, SelfId)
       IN  IF DOMAIN state_dict /= {}
           THEN LET r == LoadStateDict(params, state_dict)
                IN  /\ params' = r.params
                    /\ IF r.raised = "none"
                       THEN /\ scope' = "substituted"
                            /\ backup' = params
                            /\ before' = params
                            /\ use_params_keys' = DOMAIN P
                            /\ last' = <<"use_params", "entered">>
                       ELSE /\ last' = <<"use_params", r.raised>>
                            /\ UNCHANGED scope_vars
           ELSE /\ scope' = "direct"
                /\ before' = params
                /\ use_params_keys' = DOMAIN P
                /\ last' = <<"use_params", "entered">>
                /\ UNCHANGED <<params, backup>>
    /\ UNCHANGED <<grads, training, grad_enabled, shim_vars, sgd_vars, pc, fu_vars,
                   pending, returned_vars, bytes_vars>>

\* A use_params that never loads the backup.
UseParamsResumeNoRestore(kind, live, saved, raised) == live

\* The parameters the generator leaves behind when it is resumed at its yield:
\* by next() when the body of the with statement returned, by throw() when it
\* raised.
UseParamsResume(kind, live, saved, raised) ==
    IF kind = "substituted" /\ ~raised
    THEN LoadStateDict(live, saved).params
    ELSE live

\* The body of the with statement ends.
UseParamsExit(raised) ==
    /\ pc = "idle"
    /\ scope /= "none"
    /\ params' = UseParamsResume(scope, params, backup, raised)
    /\ scope' = "none"
    /\ backup' = EmptyDict
    /\ use_params_keys' = {}
    /\ last' = <<"use_params_exit_" \o scope, IF raised THEN "raised" ELSE "ok">>
    /\ UNCHANGED <<grads, training, grad_enabled, shim_vars, sgd_vars, pc, fu_vars,
                   before, pending, returned_vars, bytes_vars>>

(***************************************************************************)
(* to_bytes and from_bytes.                                                *)
(***************************************************************************)
\* to_bytes(): the bytes are returned to the caller.
ToBytes ==
    /\ pc = "idle"
    /\ blob' = ToBytesOf(cfg, params)
    /\ saved_state' = [cfg |-> cfg, params |-> params]
    /\ last' = <<"to_bytes", "ok">>
    /\ UNCHANGED <<model_vars, shim_vars, sgd_vars, pc, fu_vars, scope_vars, pending,
                   returned_vars, from_bytes_arg>>

\* A from_bytes that reads the envelope and loads nothing into the model.
FromBytesKeepParams(bytes_data) ==
    /\ pc = "idle"
    /\ LET msg == MsgpackLoads(bytes_data)
       IN  IF "config" \notin DOMAIN msg
           THEN /\ last' = <<"from_bytes", "KeyError">>
                /\ UNCHANGED cfg
           ELSE /\ cfg' = msg["config"]
                /\ last' = <<"from_bytes", IF "state" \notin DOMAIN msg THEN "KeyError"
                                           ELSE "ok">>
    /\ from_bytes_arg' = [of_to_bytes |-> blob /= NoBytes /\ bytes_data = blob,
                          fields |-> DOMAIN MsgpackLoads(bytes_data)]
    /\ UNCHANGED <<params, grads, training, grad_enabled, _optimizer, sgd_vars, pc,
                   fu_vars, scope_vars, pending, returned_vars, blob, saved_state>>

\* A from_bytes that loads the state before it reads the config field.
FromBytesLoadFirst(bytes_data) ==
    /\ pc = "idle"
    /\ LET msg == MsgpackLoads(bytes_data)
           r == IF "state" \in DOMAIN msg
                THEN LoadStateDict(params, TorchLoad(msg["state"]))
                ELSE [params |-> params, raised |-> "KeyError"]
       IN  /\ params' = r.params
           /\ IF r.raised /= "none"
              THEN /\ last' = <<"from_bytes", r.raised>>
                   /\ UNCHANGED cfg
              ELSE IF "config" \notin DOMAIN msg
              THEN /\ last' = <<"from_bytes", "KeyError">>
                   /\ UNCHANGED cfg
              ELSE /\ last' = <<"from_bytes", "ok">>
                   /\ cfg' = msg["config"]
    /\ from_bytes_arg' = [of_to_bytes |-> blob /= NoBytes /\ bytes_data = blob,
                          fields |-> DOMAIN MsgpackLoads(bytes_data)]
    /\ UNCHANGED <<grads, training, grad_enabled, _optimizer, sgd_vars, pc, fu_vars,
                   scope_vars, pending, returned_vars, blob, saved_state>>

\* from_bytes(bytes_data): self.cfg is assigned before the state is read.
FromBytes(bytes_data) ==
    /\ pc = "idle"
    /\ LET msg == MsgpackLoads(bytes_data)
       IN  IF "config" \notin DOMAIN msg
           THEN /\ last' = <<"from_bytes", "KeyError">>
                /\ UNCHANGED <<params, cfg>>
           ELSE /\ cfg' = msg["config"]
                /\ IF "state" \notin DOMAIN msg
                   THEN /\ last' = <<"from_bytes", "KeyError">>
                        /\ UNCHANGED params
                   ELSE LET r == LoadStateDict(params, TorchLoad(msg["state"]))
                        IN  /\ params' = r.params
                            /\ last' = <<"from_bytes", IF r.raised = "none" THEN "ok"
                                                       ELSE r.raised>>
    /\ from_bytes_arg' = [of_to_bytes |-> blob /= NoBytes /\ bytes_data = blob,
                          fields |-> DOMAIN MsgpackLoads(bytes_data)]
    /\ UNCHANGED <<grads, training, grad_enabled, _optimizer, sgd_vars, pc, fu_vars,
                   scope_vars, pending, returned_vars, blob, saved_state>>

(***************************************************************************)
(* The shim under every operation.                                         *)
(***************************************************************************)
Next ==
    \/ \E is_train \in BOOLEAN, ok \in BOOLEAN : Call(is_train, ok)
    \/ PredictEnter(FALSE)
    \/ \E ok \in BOOLEAN : PredictForward(ok)
    \/ \E ok \in BOOLEAN : BeginUpdate(FALSE, ok)
    \/ \E g \in [Names -> GradVals] : Backprop(g)
    \/ \E g \in [Names -> GradVals] : NoopBackprop(g)
    \/ \E sgd \in Optimizers : FinishUpdate(sgd)
    \/ \E ok \in BOOLEAN : FuClip(ok)
    \/ \E ok \in BOOLEAN : FuStep(ok)
    \/ FuZeroGrad
    \/ FuUpdateAverages
    \/ \E P \in ParamMaps : UseParamsEnter(P)
    \/ \E raised \in BOOLEAN : UseParamsExit(raised)
    \/ ToBytes
    \/ \E b \in Envelopes : FromBytes(b)

Spec == Init /\ [][Next]_vars

(***************************************************************************)
(* Slices of Spec.  The state space of Spec is too large to enumerate, so  *)
(* each group of properties is checked on the operations that write the    *)
(* variables it reads, with the other operations left out.                 *)
(***************************************************************************)
\* Generic optimizers that differ in the update rule and in clipping only.
TrainOptimizers ==
    { sgd \in Optimizers :
        /\ sgd.learn_rate = 1 /\ sgd.L2 = 0 /\ sgd.b1 /= 0
        /\ ~sgd.L2_is_weight_decay }

\* The steps inside finish_update.
FinishUpdateSteps ==
    \/ \E ok \in BOOLEAN : FuClip(ok)
    \/ \E ok \in BOOLEAN : FuStep(ok)
    \/ FuZeroGrad
    \/ FuUpdateAverages

\* Training: begin_update, backprop, finish_update.
Train(sgds, gs) ==
    \/ \E ok \in BOOLEAN : BeginUpdate(FALSE, ok)
    \/ \E g \in gs : Backprop(g)
    \/ \E sgd \in sgds : FinishUpdate(sgd)
    \/ FinishUpdateSteps

\* Every gradient; the largest gradient.
Gradients == [Names -> GradVals]
FullGradient == {[n \in Names |-> MaxGrad]}

\* use_params around training and from_bytes: every writer of the parameters.
InitScope == Init /\ averages.none /\ training /\ forward_returns = "tuple"
NextScope ==
    \/ \E P \in ParamMaps : UseParamsEnter(P)
    \/ \E raised \in BOOLEAN : UseParamsExit(raised)
    \/ \E v \in Vals : FromBytes(ToBytesOf(cfg, [n \in Names |-> v]))
    \/ BeginUpdate(FALSE, TRUE)
    \/ \E g \in FullGradient : Backprop(g)
    \/ \E sgd \in {o \in TrainOptimizers : o.grad_clip = 0 /\ o.b2 /= 0} : FinishUpdate(sgd)
    \/ FuStep(TRUE)
    \/ FuZeroGrad
    \/ FuUpdateAverages
SpecScope == InitScope /\ [][NextScope]_vars

\* finish_update under every generic optimizer: the writer of _optimizer.
InitOptimizer ==
    Init /\ averages.none /\ training /\ params = ZeroGrad /\ forward_returns = "tuple"
NextOptimizer == Train(Optimizers, FullGradient)
SpecOptimizer == InitOptimizer /\ [][NextOptimizer]_vars

\* Training with every registry: the writers of grads, averages, nr_update.
NextFinish == Train(TrainOptimizers, Gradients)
InitFinish == Init /\ forward_returns = "tuple"
SpecFinish == InitFinish /\ [][NextFinish]_vars

\* The calling convention: every writer of the mode and of the callbacks.
InitCall ==
    Init /\ ~averages.none /\ averages.dict = EmptyDict /\ forward_returns = "tuple"
NextCall ==
    \/ \E is_train \in BOOLEAN, ok \in BOOLEAN : Call(is_train, ok)
    \/ PredictEnter(FALSE)
    \/ \E ok \in BOOLEAN : PredictForward(ok)
    \/ \E g \in [Names -> GradVals] : NoopBackprop(g)
    \/ Train(TrainOptimizers, Gradients)
SpecCall == InitCall /\ [][NextCall]_vars

\* to_bytes and from_bytes around training: every writer of cfg and a writer
\* of the parameters between the two calls.
\* Envelopes of a shim whose parameters are all alike, whole or lacking a field.
UniformEnvelopes ==
    LET good == {ToBytesOf(c, [n \in Names |-> v]) : c \in Configs, v \in Vals}
    IN  good \cup {<<b[1]>> : b \in good} \cup {<<b[2]>> : b \in good}

InitBytes == Init /\ averages.none /\ training /\ forward_returns = "tuple"
NextBytes ==
    \/ ToBytes
    \/ blob /= NoBytes /\ FromBytes(blob)
    \/ \E b \in UniformEnvelopes : FromBytes(b)
    \/ BeginUpdate(FALSE, TRUE)
    \/ \E g \in FullGradient : Backprop(g)
    \/ \E sgd \in {o \in TrainOptimizers : o.grad_clip = 0 /\ o.b2 /= 0} : FinishUpdate(sgd)
    \/ \E ok \in BOOLEAN : FuStep(ok)
    \/ FuZeroGrad
    \/ FuUpdateAverages
SpecBytes == InitBytes /\ [][NextBytes]_vars


\* The forward calls over a foreign model that returns a bare tensor or a
\* tuple: every writer of the output handed back to the caller.
InitBridge == Init /\ averages.none
NextBridge ==
    \/ \E is_train \in BOOLEAN, ok \in BOOLEAN : Call(is_train, ok)
    \/ PredictEnter(FALSE)
    \/ \E ok \in BOOLEAN : PredictForward(ok)
    \/ \E ok \in BOOLEAN : BeginUpdate(FALSE, ok)
    \/ \E g \in Gradients : Backprop(g)
    \/ \E g \in Gradients : NoopBackprop(g)
SpecBridge == InitBridge /\ [][NextBridge]_vars

\* Training and use_params(sgd.averages) on a registry that another shim
\* shares: every writer and the reader of averages and nr_update.
InitRegistry == Init /\ ~averages.none /\ training /\ forward_returns = "tuple"
NextRegistry ==
    \/ Train(TrainOptimizers, FullGradient)
    \/ UseParamsEnter(averages.dict)
    \/ \E raised \in BOOLEAN : UseParamsExit(raised)
SpecRegistry == InitRegistry /\ [][NextRegistry]_vars

(***************************************************************************)
(* Properties.                                                             *)
(***************************************************************************)
Finished(op) == last[1] = op /\ last[2] /= "running"
OwnGroup == _optimizer.param_groups[1]
IsAdamBranch(sgd) == sgd.b1 /= 0 /\ sgd.b2 /= 0
IsPrefix(s, t) == Len(s) <= Len(t) /\ SubSeq(t, 1, Len(s)) = s

\* C1: when the body of a use_params scope that substituted parameters returns
\* normally, every parameter of the model is again what it was when the scope
\* was entered.
C1_RestoredOnReturn ==
    last = <<"use_params_exit_substituted", "ok">> => params = before

C1_Witness ==
    /\ last = <<"use_params_exit_substituted", "ok">>
    /\ params = before
    /\ nr_finish > 0

\* C2: when the body of a use_params scope that substituted parameters raises,
\* every parameter of the model is again what it was when the scope was
\* entered.
C2_RestoredOnRaise ==
    last = <<"use_params_exit_substituted", "raised">> => params = before

\* C3: the torch optimizer is absent before the first finish_update, is
\* constructed by the first finish_update and never again, and the shim keeps
\* that one object.
C3_OneOptimizer ==
    /\ nr_finish = 0 => _optimizer = NoOptimizer /\ nr_constructed = 0
    /\ nr_finish >= 1 => _optimizer /= NoOptimizer /\ nr_constructed = 1
    /\ _optimizer /= NoOptimizer => _optimizer.handle = 1

\* C4: a finish_update that finds an optimizer leaves exactly one optimizer
\* constructed, and every hyperparameter group holds each argument derived
\* from the generic optimizer of that call.
C4_GroupsRefreshed ==
    (Finished("finish_update") /\ nr_finish >= 2 /\ _optimizer /= NoOptimizer) =>
        /\ nr_constructed = 1
        /\ \A i \in DOMAIN _optimizer.param_groups :
              \A k \in DOMAIN OptimizerArgs(last_sgd) :
                  /\ k \in DOMAIN _optimizer.param_groups[i]
                  /\ _optimizer.param_groups[i][k] = OptimizerArgs(last_sgd)[k]

\* C5: finish_update runs its statements in the order get the optimizer, clip
\* (only with a clipping threshold), step (once), zero_grad, update the
\* averages; when it returns the gradients are cleared and an average created
\* by it equals the parameter after the step.
FinishUpdateOrder(clip) ==
    IF clip /= 0
    THEN <<"get_optimizer", "clip", "step", "zero_grad", "update_averages">>
    ELSE <<"get_optimizer", "step", "zero_grad", "update_averages">>

C5_StatementOrder ==
    /\ IsPrefix(fu_trace, FinishUpdateOrder(last_sgd.grad_clip))
    /\ last = <<"finish_update", "ok">> =>
          /\ fu_trace = FinishUpdateOrder(last_sgd.grad_clip)
          /\ grads = ZeroGrad
          /\ ~averages.none =>
                \A n \in Names :
                    nr_update[Key(SelfId, n)] = init_steps =>
                        averages.dict[Key(SelfId, n)] = params[n]

C5_Witness ==
    /\ last = <<"finish_update", "ok">>
    /\ last_sgd.grad_clip /= 0
    /\ Len(fu_trace) = 5
    /\ ~averages.none
    /\ \E n \in Names : params[n] /= 0 /\ averages.dict[Key(SelfId, n)] = params[n]

\* C6: while predict runs the forward call the model is in evaluation mode and
\* gradient tracking is off; when predict has returned the model is in
\* training mode and gradient tracking is on.
C6_PredictMode ==
    /\ pc \in {"predict", "call_predict"} => ~training /\ ~grad_enabled
    /\ last \in {<<"predict", "ok">>, <<"call_predict", "ok">>} =>
          training /\ grad_enabled

C6_Witness ==
    /\ last = <<"predict", "ok">>
    /\ training
    /\ grad_enabled
    /\ nr_finish > 0

\* C7: __call__ with is_train false runs predict and hands back a callback
\* whose invocation changes nothing; with is_train true it runs begin_update.
C7_CallRouting ==
    /\ [](/\ last = <<"call_predict", "running">> => pc = "call_predict"
          /\ last = <<"call_predict", "ok">> => pending = "noop" /\ training
          /\ last[1] = "call_begin_update" => training /\ pc = "idle"
          /\ last = <<"call_begin_update", "ok">> => pending = "backward")
    /\ [][last' = <<"noop_backprop", "ok">> =>
            UNCHANGED <<model_vars, shim_vars, sgd_vars, pc, fu_vars, scope_vars,
                        pending, returned_vars, bytes_vars>>]_vars

C7_Witness ==
    /\ last = <<"noop_backprop", "ok">>
    /\ \E n \in Names : grads[n] /= 0
    /\ _optimizer /= NoOptimizer

\* C8: a first finish_update whose b1 and b2 are both nonzero constructs AdamW
\* when L2_is_weight_decay is set and Adam otherwise, with lr=learn_rate,
\* weight_decay=L2, betas=(b1, b2) and eps=eps.
C8_AdamSelection ==
    (nr_finish = 1 /\ IsAdamBranch(last_sgd)) =>
        /\ nr_constructed = 1
        /\ _optimizer.cls = <<"torch", "optim",
                              IF last_sgd.L2_is_weight_decay THEN "AdamW" ELSE "Adam">>
        /\ Len(_optimizer.param_groups) = 1
        /\ DOMAIN OwnGroup = {"lr", "weight_decay", "betas", "eps"}
        /\ OwnGroup["lr"] = last_sgd.learn_rate
        /\ OwnGroup["weight_decay"] = last_sgd.L2
        /\ OwnGroup["betas"] = <<last_sgd.b1, last_sgd.b2>>
        /\ OwnGroup["eps"] = last_sgd.eps

C8_Witness ==
    /\ nr_finish = 1
    /\ last_sgd.b1 = 9 /\ last_sgd.b2 = 999 /\ last_sgd.eps = 8
    /\ last_sgd.L2 = 1 /\ last_sgd.L2_is_weight_decay
    /\ _optimizer.cls = <<"torch", "optim", "AdamW">>
    /\ OwnGroup["weight_decay"] = 1

\* C9: a finish_update whose b1 and b2 are not both nonzero selects plain
\* gradient descent, with momentum=b1 when b2 is zero, and is not stopped by
\* an error of the shim.
C9_SgdSelection ==
    (Finished("finish_update") /\ ~IsAdamBranch(last_sgd) /\ nr_finish = 1) =>
        /\ last[2] /= "NameError"
        /\ _optimizer.cls = <<"torch", "optim", "SGD">>
        /\ last_sgd.b2 = 0 =>
              /\ "momentum" \in DOMAIN OwnGroup
              /\ OwnGroup["momentum"] = last_sgd.b1

\* C10: with averaging on, no key of the shim is in averages at the start; a
\* key enters averages only in the averaging update of a finish_update, after
\* the step, as the value the parameter has then, with nr_update[key] set to
\* init_steps.
C10_FirstAverage ==
    /\ \A n \in Names : Key(SelfId, n) \notin DOMAIN averages.dict
    /\ [][\A n \in Names :
            LET key == Key(SelfId, n)
            IN  /\ (key \notin DOMAIN averages.dict /\ key \in DOMAIN averages'.dict) =>
                      /\ pc = "update_averages"
                      /\ \E i \in DOMAIN fu_trace : fu_trace[i] = "step"
                      /\ params' = params
                      /\ averages'.dict[key] = params[n]
                      /\ nr_update'[key] = init_steps
                /\ (pc = "update_averages" /\ ~averages.none) =>
                      key \in DOMAIN averages'.dict]_vars

C10_Witness ==
    /\ ~averages.none
    /\ \E n \in Names :
          /\ Key(SelfId, n) \in DOMAIN averages.dict
          /\ nr_update[Key(SelfId, n)] = init_steps
          /\ params[n] /= 0
          /\ averages.dict[Key(SelfId, n)] = params[n]

\* C11: with averaging on, after the k-th finish_update that returned,
\* nr_update[key] is k for every parameter of the model; the average of a key
\* that already has one is moved by update_averages with the count k of the
\* update under way; and no counter of the registry ever decreases.
C11_UpdateCount ==
    /\ [](~averages.none =>
            \A n \in Names : NrGet(nr_update, Key(SelfId, n)) = nr_returned)
    /\ [][\A k \in DOMAIN nr_update :
             k \in DOMAIN nr_update' /\ nr_update'[k] >= nr_update[k]]_vars
    /\ [][(pc = "update_averages" /\ pc' = "idle") =>
             \A n \in Names :
                LET key == Key(SelfId, n)
                IN  key \in DOMAIN averages.dict =>
                       averages'.dict[key] =
                          update_averages(averages.dict[key], params[n],
                                          nr_returned + 1)]_vars

C11_Witness ==
    /\ ~averages.none
    /\ last = <<"finish_update", "ok">>
    /\ nr_returned = 2
    /\ \E n \in Names :
          /\ nr_update[Key(SelfId, n)] = 2
          /\ averages.dict[Key(SelfId, n)] /= params[n]

\* C12: when the optimizer's averages are None, the averaging update that ends
\* a finish_update creates no entry of averages and leaves nr_update as it is,
\* and that finish_update has run the optimizer step and cleared the
\* gradients before it.
C12_NoAveraging ==
    /\ [](averages.none => averages.dict = EmptyDict /\ nr_update = EmptyDict)
    /\ [][(averages.none /\ pc = "update_averages" /\ pc' = "idle") =>
             /\ UNCHANGED sgd_vars
             /\ last' = <<"finish_update", "ok">>
             /\ fu_trace' = FinishUpdateOrder(last_sgd.grad_clip)
             /\ grads' = ZeroGrad]_vars
    /\ [][(averages.none /\ pc = "step" /\ pc' = "zero_grad") =>
             params' = OptimStep(params, grads, OwnGroup)]_vars

C12_Witness ==
    /\ averages.none
    /\ last = <<"finish_update", "ok">>
    /\ nr_returned = 2
    /\ DOMAIN nr_update = {}

\* C13: from_bytes of the bytes the latest to_bytes returned succeeds and
\* leaves every parameter and the config as they were when to_bytes ran,
\* whatever training or loading happened in between; to_bytes changes neither
\* the parameters nor the config.
C13_RoundTrip ==
    /\ []((last[1] = "from_bytes" /\ from_bytes_arg.of_to_bytes) =>
             /\ last[2] = "ok"
             /\ params = saved_state.params
             /\ cfg = saved_state.cfg)
    /\ [][last' = <<"to_bytes", "ok">> =>
             /\ params' = params
             /\ cfg' = cfg
             /\ blob' = ToBytesOf(cfg, params)]_vars

C13_Witness ==
    /\ last = <<"from_bytes", "ok">>
    /\ from_bytes_arg.of_to_bytes
    /\ nr_returned > 0
    /\ params = saved_state.params
    /\ cfg = saved_state.cfg

\* C14: from_bytes of an envelope that lacks the config field or the state
\* field raises KeyError, and the parameters of the model after the call are
\* those before it.
C14_MalformedEnvelope ==
    [][(last'[1] = "from_bytes" /\ from_bytes_arg'.fields /= {"config", "state"}) =>
          /\ last'[2] = "KeyError"
          /\ params' = params]_vars

C14_Witness ==
    /\ last = <<"from_bytes", "KeyError">>
    /\ from_bytes_arg.fields = {"state"}
    /\ nr_returned > 0

\* C15: the output a begin_update returns is a tuple, also when the foreign
\* model returned a single bare tensor.
C15_OutputIsTuple ==
    last \in {<<"begin_update", "ok">>, <<"call_begin_update", "ok">>} =>
        output = "tuple"

\* C16: a use_params whose mapping has no key of this shim (keys of other
\* shims and keys that are no strings included) takes no snapshot and loads
\* nothing on entry, and loads nothing on exit: the parameters on leaving the
\* scope are those the body left, whether it returned or raised.
C16_NoMatchSkips ==
    /\ [](scope /= "none" =>
            (scope = "direct" <=> use_params_keys \cap OwnKeys = {}))
    /\ [](scope = "direct" => backup = EmptyDict)
    /\ [][(scope = "none" /\ scope' = "direct") => params' = params]_vars
    /\ [][(scope = "direct" /\ scope' = "none") =>
             /\ params' = params
             /\ last'[1] = "use_params_exit_direct"]_vars

C16_Witness ==
    /\ last = <<"use_params_exit_direct", "ok">>
    /\ nr_returned > 0
    /\ params /= before

\* C17: when clip_grad_norm_ or step() raises inside finish_update, the call
\* ends there with the error: neither the step nor any later statement runs
\* after it, the step has run at most once, the gradients are not cleared,
\* averages and nr_update are as before the failing statement, and the torch
\* optimizer stays bound to the shim.
C17_StepFailure ==
    /\ [](last = <<"finish_update", "ForeignError">> =>
            /\ pc = "idle"
            /\ fu_trace \in {<<"get_optimizer">>, <<"get_optimizer", "clip">>}
            /\ _optimizer /= NoOptimizer)
    /\ [](Cardinality({i \in DOMAIN fu_trace : fu_trace[i] = "step"}) <= 1)
    /\ [][(pc \in {"clip", "step"} /\ pc' = "idle") =>
             /\ last' = <<"finish_update", "ForeignError">>
             /\ UNCHANGED <<params, grads, averages, nr_update, _optimizer, nr_returned>>]_vars

C17_Witness ==
    /\ last = <<"finish_update", "ForeignError">>
    /\ fu_trace = <<"get_optimizer", "clip">>
    /\ \E n \in Names : grads[n] /= 0
    /\ nr_returned > 0
    /\ _optimizer /= NoOptimizer

\* The entries of a registry dict that do not carry this shim's prefix.
Foreign(d) ==
    LET ks == {k \in DOMAIN d : ~(HasStartswith(k) /\ StartsWith(k, key_prefix(SelfId)))}
    IN  [k \in ks |-> d[k]]

\* C18: no operation of this shim creates, changes or removes an entry of
\* averages or nr_update under a key without this shim's prefix, and
\* use_params(sgd.averages) loads into the model the entries under this
\* shim's keys and no other: a parameter whose key is absent keeps its value.
C18_NamespaceIsolation ==
    /\ [][/\ Foreign(averages'.dict) = Foreign(averages.dict)
          /\ Foreign(nr_update') = Foreign(nr_update)]_vars
    /\ [][last'[1] = "use_params" =>
             \A n \in Names :
                params'[n] = IF Key(SelfId, n) \in DOMAIN averages.dict
                             THEN averages.dict[Key(SelfId, n)]
                             ELSE params[n]]_vars

C18_Witness ==
    /\ scope = "substituted"
    /\ last = <<"use_params", "entered">>
    /\ OtherKey \in use_params_keys
    /\ nr_returned = 2
    /\ nr_update[OtherKey] = 1
    /\ \E n \in Names : params[n] /= averages.dict[OtherKey]

\* C19: once the torch optimizer exists its class and identity never change;
\* a later finish_update whose hyperparameters select another class writes
\* each argument derived from them into every existing hyperparameter group
\* and leaves every other key of the group at its earlier value.
C19_KindFixed ==
    /\ [][_optimizer /= NoOptimizer =>
             /\ _optimizer'.cls = _optimizer.cls
             /\ _optimizer'.handle = _optimizer.handle]_vars
    /\ [][(/\ _optimizer /= NoOptimizer
           /\ nr_finish' = nr_finish + 1
           /\ OptimizerCls(last_sgd') /= _optimizer.cls) =>
             \A i \in DOMAIN _optimizer.param_groups :
                /\ DOMAIN _optimizer'.param_groups[i] =
                      DOMAIN _optimizer.param_groups[i] \cup DOMAIN OptimizerArgs(last_sgd')
                /\ \A k \in DOMAIN _optimizer'.param_groups[i] :
                      _optimizer'.param_groups[i][k] =
                         IF k \in DOMAIN OptimizerArgs(last_sgd')
                         THEN OptimizerArgs(last_sgd')[k]
                         ELSE _optimizer.param_groups[i][k]]_vars

\* C20: when the forward call raises inside predict, predict ends with that
\* error, the model is in evaluation mode and gradient tracking is on again;
\* the model leaves evaluation mode only when a predict returns or a
\* begin_update runs.
C20_PredictFailure ==
    /\ [](last \in {<<"predict", "ForwardError">>, <<"call_predict", "ForwardError">>} =>
            /\ ~training
            /\ grad_enabled
            /\ pc = "idle")
    /\ [][(~training /\ training') =>
             \/ last' \in {<<"predict", "ok">>, <<"call_predict", "ok">>}
             \/ last'[1] \in {"begin_update", "call_begin_update"}]_vars

C20_Witness ==
    /\ last = <<"predict", "ForwardError">>
    /\ pending = "backward"
    /\ ~training
    /\ grad_enabled
    /\ pc = "idle"

====
